---- MODULE Spec2Model ----
(***************************************************************************)
(* Card-sheet layout of UW_DB_2_download.                                  *)
(*                                                                         *)
(*   uw_images_to_pdf.py   create_pdf, draw_images_on_page                 *)
(*   process_warbands.py   process_images_and_generate_pdf,                *)
(*                         draw_images_on_page_specific                    *)
(*                                                                         *)
(* Lengths are integers counted in half millimetres (mm == 2), so that the *)
(* halving in the centring formulas is exact for whole-millimetre inputs.  *)
(* The reportlab canvas is modelled by the page being drawn (page), the    *)
(* pages closed by showPage (pages) and whether save() wrote the document  *)
(* (saved).                                                                *)
(***************************************************************************)
EXTENDS Integers, Sequences, FiniteSets, TLC

\* ------------------------------------------------------------------ bounds
MaxImages == 10     \* longest image list handed to create_pdf
MaxLimit == 3       \* largest back_card_limit handed to create_pdf
MaxNames == 4       \* longest image list handed to process_images_and_generate_pdf
MaxFiles == 3       \* most files in main's --folder, or image tags on its page
MaxPng == 3         \* longest image list handed to save_as_png
MaxDecks == 3       \* most decks in batch_generate_pdfs' base_urls

\* --------------------------------------------------------------- constants
mm == 2                          \* reportlab.lib.pagesizes.mm, in length units
A4 == <<210 * mm, 297 * mm>>     \* reportlab.lib.pagesizes.A4

VARIABLES
    prog,               \* which engine runs: "create_pdf" or "warbands"
    images_with_names,  \* the input list: records [id, name, ok]
    image_width, image_height, margin,
    back_card_limit,
    draw_cut_lines,
    back_face_mode,     \* the back-face mode the caller wants; no parameter carries it
    pc,
    images_per_row, images_per_col, images_per_page,
    total_pages, page_num, back_counter,
    dedicated_images, inspired_images, other_images,
    bucket,             \* the bucket being laid out: 1 other, 2 inspired, 3 dedicated
    direction, page_start,
    page, pages, saved,
    ret, msg,
    entry,              \* how the engine is reached: "call", or main's "folder" / "url" path
    files,              \* what main's loader finds: records [id, name, status]
    url_valid,          \* is_valid_url(args.url)
    exit_code,          \* sys.exit status of main, -1 while it runs
    written,            \* files save_as_png has written: records [filename, id, converted]
    png_i,              \* save_as_png's enumerate index
    configs,            \* run_uw_images_to_pdf's list: records [deck, format, folder]
    cfg_i,              \* run_uw_images_to_pdf's enumerate index
    child,              \* the subprocess of subprocess.run: "none" or "running"
    log                 \* subprocess events: records [event, i, deck, format, code]

cli_vars == <<entry, files, url_valid, exit_code>>
png_vars == <<written, png_i>>
batch_vars == <<configs, cfg_i, child, log>>
layout_vars == <<image_width, image_height, margin,
                 back_card_limit, draw_cut_lines, back_face_mode,
                 images_per_row, images_per_col, images_per_page,
                 total_pages, page_num, back_counter,
                 dedicated_images, inspired_images, other_images,
                 bucket, direction, page_start, page, pages, saved>>

vars == <<cli_vars, png_vars, batch_vars, prog, images_with_names, image_width, image_height, margin,
          back_card_limit, draw_cut_lines, back_face_mode, pc,
          images_per_row, images_per_col, images_per_page,
          total_pages, page_num, back_counter,
          dedicated_images, inspired_images, other_images,
          bucket, direction, page_start, page, pages, saved, ret, msg>>

\* ------------------------------------------------------------ Python helpers
Max(a, b) == IF a >= b THEN a ELSE b
Min(a, b) == IF a <= b THEN a ELSE b

\* math.floor(a / b) and a // b on numbers, b /= 0
floor_div(a, b) == IF b > 0 THEN a \div b ELSE (0 - a) \div (0 - b)

\* Faulty variant of ceil_div: rounds down, so a short last chunk gets no page.
ceil_div_rounds_down(a, b) == floor_div(a, b)

\* math.ceil(a / b), b > 0
ceil_div(a, b) == 0 - floor_div(0 - a, b)

\* seq[start:end] with 0 <= start <= end (a Python slice, clipped to the list)
Slice(seq, start, end) ==
    SubSeq(seq, Min(start, Len(seq)) + 1, Min(end, Len(seq)))

\* ------------------------------------------------------------------ names
\* File names are sequences of characters; a list item holds an index into Names.
Names == <<
    <<"c", "a", "r", "d">>,
    <<"I", "n", "s", "p", "i", "r", "e", "d">>,
    <<"i", "n", "s", "p", "i", "r", "e", "d">>,
    <<"C", "H", "A", "O", "S">>,
    <<"i", "n", "s", "p", "i", "r", "e", "d", "0">> >>

\* str.lower() on the characters that occur in Names and FileNames
lower_char(c) ==
    CASE c = "I" -> "i" [] c = "C" -> "c" [] c = "H" -> "h"
      [] c = "A" -> "a" [] c = "O" -> "o" [] c = "S" -> "s"
      [] c = "J" -> "j" [] c = "P" -> "p" [] c = "G" -> "g"
      [] OTHER -> c

lower(s) == [k \in 1..Len(s) |-> lower_char(s[k])]

\* keyword in name (Python substring test)
contains(s, kw) ==
    \E k \in 0..(Len(s) - Len(kw)) : SubSeq(s, k + 1, k + Len(kw)) = kw

dedicated_keywords == {
    <<"0">>,
    <<"o", "r", "d", "e", "r">>,
    <<"d", "e", "s", "t", "r", "u", "c", "t", "i", "o", "n">>,
    <<"d", "e", "a", "t", "h">>,
    <<"c", "h", "a", "o", "s">> }

inspired_keyword == <<"i", "n", "s", "p", "i", "r", "e", "d">>

\* ------------------------------------------------------------- image objects
card(item) == [kind |-> "card", id |-> item.id]
back_card == [kind |-> "back_card", id |-> 0]
alternate_back_card == [kind |-> "alternate_back_card", id |-> 0]

\* ImageReader(img) succeeds: the image decodes when it is drawn
readable(item) == item.ok

\* ----------------------------------------------------------------- canvas
BlankPage == [bg |-> FALSE, rects |-> <<>>, cuts |-> <<>>]

\* ------------------------------------------------------------ Grid Planner
\* Faulty variant of fit_count: the quotient is rounded up, not down.
fit_count_rounds_up(page_len, image_len, m) ==
    Max(1, ceil_div(page_len - 2 * m, image_len + m))

\* create_pdf: max(1, math.floor(available / (image + margin)))
fit_count(page_len, image_len, m) ==
    Max(1, floor_div(page_len - 2 * m, image_len + m))

\* draw_images_on_page_specific: max(1, int(available // (image + margin)))
fit_count_specific(page_len, image_len, m) ==
    Max(1, floor_div(page_len - 2 * m, image_len + m))

\* ------------------------------------------------------------- Cell Placer
\* Faulty variant of place: the column stride leaves out the margin.
place_stride_without_margin(i, img, dir, per_row, per_col, page_width, page_height, w, h, m) ==
    LET row == i \div per_row
        col0 == i % per_row
        col == IF dir = "rtl" THEN per_row - 1 - col0 ELSE col0
        total_row_width == per_row * w + (per_row - 1) * m
        start_x == (page_width - total_row_width) \div 2 + col * w
        total_col_height == per_col * h + (per_col - 1) * m
        start_y == page_height
                   - ((page_height - total_col_height) \div 2
                      + (row + 1) * h + row * m)
    IN [img |-> img, slot |-> i, dir |-> dir,
        x |-> start_x, y |-> start_y, w |-> w, h |-> h]

\* Faulty variant of place: the direction is ignored, columns are never mirrored.
place_ignores_direction(i, img, dir, per_row, per_col, page_width, page_height, w, h, m) ==
    LET row == i \div per_row
        col == i % per_row
        total_row_width == per_row * w + (per_row - 1) * m
        start_x == (page_width - total_row_width) \div 2 + col * (w + m)
        total_col_height == per_col * h + (per_col - 1) * m
        start_y == page_height
                   - ((page_height - total_col_height) \div 2
                      + (row + 1) * h + row * m)
    IN [img |-> img, slot |-> i, dir |-> dir,
        x |-> start_x, y |-> start_y, w |-> w, h |-> h]

\* Faulty variant of place: the grid block is not centred, it starts at the
\* left and top page edge.
place_flush_left(i, img, dir, per_row, per_col, page_width, page_height, w, h, m) ==
    LET row == i \div per_row
        col0 == i % per_row
        col == IF dir = "rtl" THEN per_row - 1 - col0 ELSE col0
        start_x == col * (w + m)
        start_y == page_height - ((row + 1) * h + row * m)
    IN [img |-> img, slot |-> i, dir |-> dir,
        x |-> start_x, y |-> start_y, w |-> w, h |-> h]

\* One iteration of the drawing loop of draw_images_on_page: the rectangle
\* handed to drawImage for slot i.
place(i, img, dir, per_row, per_col, page_width, page_height, w, h, m) ==
    LET row == i \div per_row
        col0 == i % per_row
        col == IF dir = "rtl" THEN per_row - 1 - col0 ELSE col0
        total_row_width == per_row * w + (per_row - 1) * m
        start_x == (page_width - total_row_width) \div 2 + col * (w + m)
        total_col_height == per_col * h + (per_col - 1) * m
        start_y == page_height
                   - ((page_height - total_col_height) \div 2
                      + (row + 1) * h + row * m)
    IN [img |-> img, slot |-> i, dir |-> dir,
        x |-> start_x, y |-> start_y, w |-> w, h |-> h]

\* The same loop body in draw_images_on_page_specific.
place_specific(i, img, dir, per_row, per_col, page_width, page_height, w, h, m) ==
    LET row == i \div per_row
        col0 == i % per_row
        col == IF dir = "rtl" THEN per_row - 1 - col0 ELSE col0
        total_row_width == per_row * w + (per_row - 1) * m
        start_x == (page_width - total_row_width) \div 2 + col * (w + m)
        total_col_height == per_col * h + (per_col - 1) * m
        start_y == page_height
                   - ((page_height - total_col_height) \div 2
                      + (row + 1) * h + row * m)
    IN [img |-> img, slot |-> i, dir |-> dir,
        x |-> start_x, y |-> start_y, w |-> w, h |-> h]

\* The arguments of one draw_pdf_cut_lines call, as drawn on the current page.
cut_lines(per_row, per_col, w, h, m) ==
    [per_row |-> per_row, per_col |-> per_col, w |-> w, h |-> h, m |-> m]

\* CUT_LINE_LENGTH of draw_pdf_cut_lines.
CUT_LINE_LENGTH == 5 * mm

\* draw_pdf_cut_lines: the set of pdf_canvas.line calls of one call, each a
\* record [x1, y1, x2, y2].  The column loop runs over range(images_per_row),
\* the row loop over range(images_per_col + 1); each draws at the offsets 0
\* and image_width (image_height), below/above (left/right of) the grid.
draw_pdf_cut_lines(cut, page_width, page_height) ==
    LET total_row_width == cut.per_row * cut.w + (cut.per_row - 1) * cut.m
        grid_start_x == (page_width - total_row_width) \div 2
        total_col_height == cut.per_col * cut.h + (cut.per_col - 1) * cut.m
        grid_start_y == page_height - (page_height - total_col_height) \div 2
                          - total_col_height
        xs == {grid_start_x + c * (cut.w + cut.m)
                 - (IF c = cut.per_row THEN cut.m ELSE 0) + offset :
               c \in 0..(cut.per_row - 1), offset \in {0, cut.w}}
        ys == {grid_start_y + r * (cut.h + cut.m)
                 - (IF r = cut.per_col THEN cut.m ELSE 0) + offset :
               r \in 0..cut.per_col, offset \in {0, cut.h}}
    IN {[x1 |-> x, y1 |-> grid_start_y - CUT_LINE_LENGTH,
         x2 |-> x, y2 |-> grid_start_y] : x \in xs}
       \cup {[x1 |-> x, y1 |-> grid_start_y + total_col_height,
              x2 |-> x, y2 |-> grid_start_y + total_col_height + CUT_LINE_LENGTH] :
             x \in xs}
       \cup {[x1 |-> grid_start_x - CUT_LINE_LENGTH, y1 |-> y,
              x2 |-> grid_start_x, y2 |-> y] : y \in ys}
       \cup {[x1 |-> grid_start_x + total_row_width, y1 |-> y,
              x2 |-> grid_start_x + total_row_width + CUT_LINE_LENGTH, y2 |-> y] :
             y \in ys}

\* Number of leading items that decode: the drawing loop raises at the first
\* item whose ImageReader fails.
RECURSIVE drawable_prefix(_)
drawable_prefix(items) ==
    IF items = <<>> \/ ~readable(Head(items)) THEN 0
    ELSE 1 + drawable_prefix(Tail(items))

\* ------------------------------------------------------------ Page Compositor
\* draw_images_on_page: background, then one drawImage per item in list order,
\* then the cut lines.  items are records [img, ok]; the loop raises at the first
\* item that does not decode, leaving what was drawn before it on the page.
\* The result is [page, raised].
draw_images_on_page(pg, items, per_row, per_col, page_width, page_height, w, h, m, dir, cut) ==
    LET n == drawable_prefix(items)
        drawn == [i \in 1..n |->
                    place(i - 1, items[i].img, dir, per_row, per_col,
                          page_width, page_height, w, h, m)]
        raised == n < Len(items)
    IN [page |-> [bg |-> TRUE,
                  rects |-> pg.rects \o drawn,
                  cuts |-> IF cut /\ ~raised
                           THEN Append(pg.cuts, cut_lines(per_row, per_col, w, h, m))
                           ELSE pg.cuts],
        raised |-> raised]

\* Faulty variant of back_images_for: the counter restarts at 0 on every page.
back_images_for_reset_per_page(count, counter, limit) ==
    [i \in 1..count |->
        [img |-> IF i - 1 < limit THEN back_card ELSE alternate_back_card,
         ok |-> TRUE]]

\* The back images of one page (create_pdf's inner loop): one per front image,
\* the primary back while the counter is below the limit, then the alternate.
back_images_for(count, counter, limit) ==
    [i \in 1..count |->
        [img |-> IF counter + (i - 1) < limit THEN back_card
                 ELSE alternate_back_card,
         ok |-> TRUE]]

\* Faulty variant of back_counter_after: the counter is not advanced.
back_counter_not_advanced(count, counter) == counter

\* The counter after one page's inner loop.
back_counter_after(count, counter) == counter + count

\* Faulty variant of back_direction: back pages drawn like front pages.
back_direction_as_front == "ltr"

\* The direction create_pdf passes for a front page and for a back page.
front_direction == "ltr"
back_direction == "rtl"

front_items(items) == [i \in 1..Len(items) |-> [img |-> card(items[i]), ok |-> readable(items[i])]]

\* ---------------------------------------------------------------- create_pdf
\* Canvas creation, grid plan, page count, back cards, counter (lines 93-116).
CreatePdfBegin ==
    /\ prog = "create_pdf"
    /\ pc = "start"
    /\ IF image_width + margin = 0 \/ image_height + margin = 0
       THEN \* ZeroDivisionError, caught by the except clause
            /\ ret' = "False"
            /\ msg' = "Failed to create PDF"
            /\ pc' = "done"
            /\ UNCHANGED <<images_per_row, images_per_col, images_per_page,
                           total_pages, page_num, back_counter>>
       ELSE LET per_row == fit_count(A4[1], image_width, margin)
                per_col == fit_count(A4[2], image_height, margin)
                total == ceil_div(Len(images_with_names), per_row * per_col)
            IN /\ images_per_row' = per_row
               /\ images_per_col' = per_col
               /\ images_per_page' = per_row * per_col
               /\ total_pages' = total
               /\ back_counter' = 0
               /\ page_num' = 1
               /\ pc' = IF total >= 1 THEN "front" ELSE "save"
               /\ UNCHANGED <<ret, msg>>
    /\ UNCHANGED <<cli_vars, png_vars, batch_vars, prog, images_with_names, image_width, image_height, margin,
                   back_card_limit, draw_cut_lines, back_face_mode,
                   dedicated_images, inspired_images, other_images,
                   bucket, direction, page_start, page, pages, saved>>

\* The images of page page_num (lines 119-123)
current_page_images ==
    Slice(images_with_names, (page_num - 1) * images_per_page,
          (page_num - 1) * images_per_page + images_per_page)

\* One front page: slice, draw left to right, showPage (lines 119-138).
FrontPage ==
    /\ prog = "create_pdf"
    /\ pc = "front"
    /\ LET d == draw_images_on_page(page, front_items(current_page_images),
                    images_per_row, images_per_col, A4[1], A4[2],
                    image_width, image_height, margin, front_direction,
                    draw_cut_lines)
       IN IF d.raised
          THEN /\ page' = d.page
               /\ ret' = "False"
               /\ msg' = "Failed to create PDF"
               /\ pc' = "done"
               /\ UNCHANGED pages
          ELSE /\ pages' = Append(pages, d.page)
               /\ page' = BlankPage
               /\ pc' = "back"
               /\ UNCHANGED <<ret, msg>>
    /\ UNCHANGED <<cli_vars, png_vars, batch_vars, prog, images_with_names, image_width, image_height, margin,
                   back_card_limit, draw_cut_lines, back_face_mode,
                   images_per_row, images_per_col, images_per_page,
                   total_pages, page_num, back_counter,
                   dedicated_images, inspired_images, other_images,
                   bucket, direction, page_start, saved>>

\* The back page of page page_num: choose the backs, draw right to left,
\* showPage, next page_num (lines 140-163).
BackPage ==
    /\ prog = "create_pdf"
    /\ pc = "back"
    /\ LET count == Len(current_page_images)
           d == draw_images_on_page(page,
                    back_images_for(count, back_counter, back_card_limit),
                    images_per_row, images_per_col, A4[1], A4[2],
                    image_width, image_height, margin, back_direction,
                    draw_cut_lines)
       IN /\ back_counter' = back_counter_after(count, back_counter)
          /\ pages' = Append(pages, d.page)
          /\ page' = BlankPage
    /\ page_num' = page_num + 1
    /\ pc' = IF page_num < total_pages THEN "front" ELSE "save"
    /\ UNCHANGED <<cli_vars, png_vars, batch_vars, prog, images_with_names, image_width, image_height, margin,
                   back_card_limit, draw_cut_lines, back_face_mode,
                   images_per_row, images_per_col, images_per_page,
                   total_pages,
                   dedicated_images, inspired_images, other_images,
                   bucket, direction, page_start, saved, ret, msg>>

\* pdf_canvas.save() and return True (lines 165-167).
SavePdf ==
    /\ prog = "create_pdf"
    /\ pc = "save"
    /\ saved' = TRUE
    /\ ret' = "True"
    /\ msg' = "Successfully created PDF"
    /\ pc' = "done"
    /\ UNCHANGED <<cli_vars, png_vars, batch_vars, prog, images_with_names, image_width, image_height, margin,
                   back_card_limit, draw_cut_lines, back_face_mode,
                   images_per_row, images_per_col, images_per_page,
                   total_pages, page_num, back_counter,
                   dedicated_images, inspired_images, other_images,
                   bucket, direction, page_start, page, pages>>

\* ---------------------------------------- process_images_and_generate_pdf
\* Faulty variant of bucket_of: the inspired test comes first.
bucket_of_inspired_first(name) ==
    LET lower_name == lower(name)
    IN IF contains(lower_name, inspired_keyword)
       THEN "inspired"
       ELSE IF \E keyword \in dedicated_keywords : contains(lower_name, keyword)
            THEN "dedicated"
            ELSE "other"

\* The bucket a name goes to (the if / elif / else of lines 143-152).
bucket_of(name) ==
    LET lower_name == lower(name)
    IN IF \E keyword \in dedicated_keywords : contains(lower_name, keyword)
       THEN "dedicated"
       ELSE IF contains(lower_name, inspired_keyword)
            THEN "inspired"
            ELSE "other"

\* The categorising loop (lines 138-152): each item is appended to one list.
RECURSIVE categorize(_, _)
categorize(items, acc) ==
    IF items = <<>> THEN acc
    ELSE LET item == Head(items)
             b == bucket_of(Names[item.name])
         IN categorize(Tail(items),
                [dedicated |-> IF b = "dedicated"
                               THEN Append(acc.dedicated, item) ELSE acc.dedicated,
                 inspired |-> IF b = "inspired"
                              THEN Append(acc.inspired, item) ELSE acc.inspired,
                 other |-> IF b = "other"
                           THEN Append(acc.other, item) ELSE acc.other])

\* The three draw_images_on_page_specific calls, in call order (lines 158-192).
bucket_call(b) ==
    CASE b = 1 -> [list |-> other_images, image_width |-> 63 * mm,
                   image_height |-> 88 * mm, margin |-> 3 * mm, direction |-> "ltr"]
      [] b = 2 -> [list |-> inspired_images, image_width |-> 63 * mm,
                   image_height |-> 88 * mm, margin |-> 3 * mm, direction |-> "rtl"]
      [] b = 3 -> [list |-> dedicated_images, image_width |-> 148 * mm,
                   image_height |-> 105 * mm, margin |-> 3 * mm, direction |-> "ltr"]

\* Where the run goes after bucket b: the next if, or save().
after_bucket(b) == IF b < 3 THEN "bucket" ELSE "save"

\* The drawing loop of one chunk in draw_images_on_page_specific (lines 80-111):
\* no background; raises at the first item that does not decode.
draw_chunk(pg, items, per_row, per_col, page_width, page_height, w, h, m, dir) ==
    LET n == drawable_prefix(items)
        drawn == [i \in 1..n |->
                    place_specific(i - 1, card(items[i]), dir, per_row, per_col,
                                   page_width, page_height, w, h, m)]
    IN [page |-> [pg EXCEPT !.rects = pg.rects \o drawn],
        raised |-> n < Len(items)]

\* The empty-input return, or the categorising loop and the canvas (lines 132-155).
WarbandsBegin ==
    /\ prog = "warbands"
    /\ pc = "start"
    /\ IF images_with_names = <<>>
       THEN /\ msg' = "No valid images to process."
            /\ ret' = "None"
            /\ pc' = "done"
            /\ UNCHANGED <<dedicated_images, inspired_images, other_images, bucket>>
       ELSE LET c == categorize(images_with_names,
                        [dedicated |-> <<>>, inspired |-> <<>>, other |-> <<>>])
            IN /\ dedicated_images' = c.dedicated
               /\ inspired_images' = c.inspired
               /\ other_images' = c.other
               /\ bucket' = 1
               /\ pc' = "bucket"
               /\ UNCHANGED <<ret, msg>>
    /\ UNCHANGED <<cli_vars, png_vars, batch_vars, prog, images_with_names, image_width, image_height, margin,
                   back_card_limit, draw_cut_lines, back_face_mode,
                   images_per_row, images_per_col, images_per_page,
                   total_pages, page_num, back_counter,
                   direction, page_start, page, pages, saved>>

\* An empty bucket: its if is false, nothing is drawn (lines 158, 170, 182).
SkipBucket ==
    /\ prog = "warbands"
    /\ pc = "bucket"
    /\ bucket_call(bucket).list = <<>>
    /\ pc' = after_bucket(bucket)
    /\ bucket' = bucket + 1
    /\ UNCHANGED <<cli_vars, png_vars, batch_vars, prog, images_with_names, image_width, image_height, margin,
                   back_card_limit, draw_cut_lines, back_face_mode,
                   images_per_row, images_per_col, images_per_page,
                   total_pages, page_num, back_counter,
                   dedicated_images, inspired_images, other_images,
                   direction, page_start, page, pages, saved, ret, msg>>

\* Entry of draw_images_on_page_specific for a non-empty bucket: the grid plan
\* (lines 67-75).
BeginBucket ==
    /\ prog = "warbands"
    /\ pc = "bucket"
    /\ bucket_call(bucket).list # <<>>
    /\ LET c == bucket_call(bucket)
           per_row == fit_count_specific(A4[1], c.image_width, c.margin)
           per_col == fit_count_specific(A4[2], c.image_height, c.margin)
       IN /\ image_width' = c.image_width
          /\ image_height' = c.image_height
          /\ margin' = c.margin
          /\ direction' = c.direction
          /\ images_per_row' = per_row
          /\ images_per_col' = per_col
          /\ images_per_page' = per_row * per_col
    /\ page_start' = 0
    /\ pc' = "chunk"
    /\ UNCHANGED <<cli_vars, png_vars, batch_vars, prog, images_with_names, back_card_limit, draw_cut_lines,
                   back_face_mode, total_pages, page_num, back_counter,
                   dedicated_images, inspired_images, other_images,
                   bucket, page, pages, saved, ret, msg>>

\* One iteration of the page loop (lines 77-127): draw the chunk, showPage if
\* more images follow, then the cut lines.
DrawChunk ==
    /\ prog = "warbands"
    /\ pc = "chunk"
    /\ page_start < Len(bucket_call(bucket).list)
    /\ LET list == bucket_call(bucket).list
           page_images == Slice(list, page_start, page_start + images_per_page)
           d == draw_chunk(page, page_images, images_per_row, images_per_col,
                           A4[1], A4[2], image_width, image_height, margin,
                           direction)
           more == page_start + images_per_page < Len(list)
           shown == IF more THEN BlankPage ELSE d.page
           cut == cut_lines(images_per_row, images_per_col,
                            image_width, image_height, margin)
       IN IF d.raised
          THEN \* the exception leaves through process_images_and_generate_pdf's except
               /\ page' = d.page
               /\ msg' = "Error processing images and generating PDF"
               /\ ret' = "None"
               /\ pc' = "done"
               /\ UNCHANGED <<pages, page_start>>
          ELSE /\ pages' = IF more THEN Append(pages, d.page) ELSE pages
               /\ page' = IF draw_cut_lines
                          THEN [shown EXCEPT !.cuts = Append(shown.cuts, cut)]
                          ELSE shown
               /\ page_start' = page_start + images_per_page
               /\ UNCHANGED <<pc, ret, msg>>
    /\ UNCHANGED <<cli_vars, png_vars, batch_vars, prog, images_with_names, image_width, image_height, margin,
                   back_card_limit, draw_cut_lines, back_face_mode,
                   images_per_row, images_per_col, images_per_page,
                   total_pages, page_num, back_counter,
                   dedicated_images, inspired_images, other_images,
                   bucket, direction, saved>>

\* Faulty variant of EndBucket: the caller does not close the bucket's last page.
EndBucket_without_showPage ==
    /\ prog = "warbands"
    /\ pc = "chunk"
    /\ page_start >= Len(bucket_call(bucket).list)
    /\ pc' = after_bucket(bucket)
    /\ bucket' = bucket + 1
    /\ UNCHANGED <<cli_vars, png_vars, batch_vars, prog, images_with_names, image_width, image_height, margin,
                   back_card_limit, draw_cut_lines, back_face_mode,
                   images_per_row, images_per_col, images_per_page,
                   total_pages, page_num, back_counter,
                   dedicated_images, inspired_images, other_images,
                   direction, page_start, page, pages, saved, ret, msg>>

\* The page loop is exhausted: draw_images_on_page_specific returns and the
\* caller closes the bucket's last page (lines 168, 180, 192).
EndBucket ==
    /\ prog = "warbands"
    /\ pc = "chunk"
    /\ page_start >= Len(bucket_call(bucket).list)
    /\ pages' = Append(pages, page)
    /\ page' = BlankPage
    /\ pc' = after_bucket(bucket)
    /\ bucket' = bucket + 1
    /\ UNCHANGED <<cli_vars, png_vars, batch_vars, prog, images_with_names, image_width, image_height, margin,
                   back_card_limit, draw_cut_lines, back_face_mode,
                   images_per_row, images_per_col, images_per_page,
                   total_pages, page_num, back_counter,
                   dedicated_images, inspired_images, other_images,
                   direction, page_start, saved, ret, msg>>

\* pdf_canvas.save() (lines 194-195); the function returns None.
SaveWarbands ==
    /\ prog = "warbands"
    /\ pc = "save"
    /\ saved' = TRUE
    /\ msg' = "PDF successfully created"
    /\ ret' = "None"
    /\ pc' = "done"
    /\ UNCHANGED <<cli_vars, png_vars, batch_vars, prog, images_with_names, image_width, image_height, margin,
                   back_card_limit, draw_cut_lines, back_face_mode,
                   images_per_row, images_per_col, images_per_page,
                   total_pages, page_num, back_counter,
                   dedicated_images, inspired_images, other_images,
                   bucket, direction, page_start, page, pages>>

\* ------------------------------------------------------------ save_as_png
\* The original names the assets of a save_as_png run may carry.
FileNames == <<
    <<"a", ".", "p", "n", "g">>,
    <<"a", ".", "J", "P", "G">>,
    <<"a", ".", "b", "m", "p">>,
    <<"a">>,
    <<".", "g", "i", "f">> >>

\* os.path.splitext: split at the last dot, unless only dots precede it.
splitext(name) ==
    LET dots == {k \in DOMAIN name : name[k] = "."}
        d == CHOOSE k \in dots : \A j \in dots : j <= k
    IN IF dots # {} /\ (\E k \in 1..(d - 1) : name[k] # ".")
       THEN [name_part |-> SubSeq(name, 1, d - 1), ext |-> SubSeq(name, d, Len(name))]
       ELSE [name_part |-> name, ext |-> <<>>]

\* The extensions save_as_png keeps (line 57).
allowed_extensions == {
    <<".", "p", "n", "g">>,
    <<".", "j", "p", "g">>,
    <<".", "j", "p", "e", "g">>,
    <<".", "g", "i", "f">>,
    <<".", "w", "e", "b", "p">> }

\* ext after lines 56-58: the original extension if it is an allowed one,
\* whatever its case, else ".png".
png_ext(name) ==
    LET ext == splitext(name).ext
    IN IF ext = <<>> \/ lower(ext) \notin allowed_extensions
       THEN <<".", "p", "n", "g">>
       ELSE ext

\* f"{i:03d}": decimal digits, padded with zeros to at least three.
Digits == <<"0", "1", "2", "3", "4", "5", "6", "7", "8", "9">>

RECURSIVE decimal(_)
decimal(n) ==
    IF n < 10 THEN <<Digits[n + 1]>>
    ELSE decimal(n \div 10) \o <<Digits[(n % 10) + 1]>>

format_03d(i) ==
    LET d == decimal(i)
    IN [k \in 1..(3 - Len(d)) |-> "0"] \o d

\* Faulty variant of new_filename: the sequence prefix is left out.
new_filename_without_sequence(i, name) ==
    splitext(name).name_part \o png_ext(name)

\* new_filename = f"{i:03d}_{name_part}{ext}" (line 61)
new_filename(i, name) ==
    format_03d(i) \o <<"_">> \o splitext(name).name_part \o png_ext(name)

\* One iteration of save_as_png's loop (lines 54-68): name the file, convert
\* to RGB unless the extension is .png, save.  An asset that cannot be
\* converted or saved raises into the except clause (lines 72-74).
SavePng ==
    /\ prog = "png"
    /\ pc = "start"
    /\ png_i < Len(images_with_names)
    /\ LET i == png_i + 1
           item == images_with_names[i]
           name == FileNames[item.name]
       IN IF readable(item)
          THEN /\ written' = Append(written,
                                   [filename |-> new_filename(i, name),
                                    id |-> item.id,
                                    converted |-> lower(png_ext(name))
                                                    # <<".", "p", "n", "g">>])
               /\ png_i' = i
               /\ UNCHANGED <<pc, ret, msg>>
          ELSE /\ ret' = "False"
               /\ msg' = "Failed to save PNG files"
               /\ pc' = "done"
               /\ UNCHANGED <<written, png_i>>
    /\ UNCHANGED <<cli_vars, batch_vars, layout_vars, prog, images_with_names>>

\* The loop is over: the success message and return True (lines 70-71).
SaveAsPngReturn ==
    /\ prog = "png"
    /\ pc = "start"
    /\ png_i = Len(images_with_names)
    /\ ret' = "True"
    /\ msg' = "Successfully saved images"
    /\ pc' = "done"
    /\ UNCHANGED <<cli_vars, png_vars, batch_vars, layout_vars, prog, images_with_names>>

\* ------------------------------------------------------------------- main
\* back_card_limit of create_pdf when the caller does not pass it, as
\* process_images does not.
DefaultBackCardLimit == 12

\* load_images_from_folder / the download loop of find_and_process_images: a
\* file that Image.open (or the download) rejects is left out; a file that
\* opens is kept under its name, whether or not its pixels decode later.
load_images(fs) ==
    LET opened == SelectSeq(fs, LAMBDA f : f.status # "unreadable")
    IN [i \in 1..Len(opened) |->
          [id |-> opened[i].id, name |-> opened[i].name,
           ok |-> opened[i].status = "ok"]]

\* main with --folder (lines 470-483): load, exit 1 if nothing loaded, else
\* process_images with the geometry of the command line.
MainFolder ==
    /\ pc = "main"
    /\ entry = "folder"
    /\ LET loaded == load_images(files)
       IN IF loaded = <<>>
          THEN /\ exit_code' = 1
               /\ pc' = "exited"
               /\ UNCHANGED images_with_names
          ELSE /\ images_with_names' = loaded
               /\ pc' = "start"
               /\ UNCHANGED exit_code
    /\ UNCHANGED <<entry, files, url_valid, png_vars, batch_vars, prog,
                   image_width, image_height, margin,
                   back_card_limit, draw_cut_lines, back_face_mode,
                   images_per_row, images_per_col, images_per_page,
                   total_pages, page_num, back_counter,
                   dedicated_images, inspired_images, other_images,
                   bucket, direction, page_start, page, pages, saved, ret, msg>>

\* main without --folder (lines 484-503): the URL check, the geometry check of
\* the pdf format, then find_and_process_images, which returns False when no
\* image was downloaded.
MainUrl ==
    /\ pc = "main"
    /\ entry = "url"
    /\ IF ~url_valid
       THEN /\ exit_code' = 1
            /\ pc' = "exited"
            /\ UNCHANGED <<images_with_names, ret, msg>>
       ELSE IF prog = "create_pdf" /\ (image_width <= 0 \/ image_height <= 0)
       THEN /\ exit_code' = 1
            /\ pc' = "exited"
            /\ UNCHANGED <<images_with_names, ret, msg>>
       ELSE LET loaded == load_images(files)
            IN IF loaded = <<>>
               THEN /\ ret' = "False"
                    /\ msg' = "No images were downloaded"
                    /\ pc' = "done"
                    /\ UNCHANGED <<images_with_names, exit_code>>
               ELSE /\ images_with_names' = loaded
                    /\ pc' = "start"
                    /\ UNCHANGED <<exit_code, ret, msg>>
    /\ UNCHANGED <<entry, files, url_valid, png_vars, batch_vars, prog,
                   image_width, image_height, margin,
                   back_card_limit, draw_cut_lines, back_face_mode,
                   images_per_row, images_per_col, images_per_page,
                   total_pages, page_num, back_counter,
                   dedicated_images, inspired_images, other_images,
                   bucket, direction, page_start, page, pages, saved>>

\* sys.exit(0 if success else 1) (line 505)
MainExit ==
    /\ pc = "done"
    /\ entry # "call"
    /\ exit_code' = IF ret = "True" THEN 0 ELSE 1
    /\ pc' = "exited"
    /\ UNCHANGED <<entry, files, url_valid, png_vars, batch_vars, prog,
                   images_with_names, image_width, image_height, margin,
                   back_card_limit, draw_cut_lines, back_face_mode,
                   images_per_row, images_per_col, images_per_page,
                   total_pages, page_num, back_counter,
                   dedicated_images, inspired_images, other_images,
                   bucket, direction, page_start, page, pages, saved, ret, msg>>

\* ------------------------------------------------------------------- inputs
\* -------------------------------------------------------------------- inputs
\* n items named by Names[name[k]]; item bad (if any) does not decode when drawn.
MkImages(n, name, bad) ==
    [k \in 1..n |-> [id |-> k, name |-> name[k], ok |-> k # bad]]

WidthSet == {0, 63 * mm, 100 * mm, 250 * mm}
HeightSet == {88 * mm, 148 * mm, 300 * mm}
MarginSet == {0, 3 * mm}

\* The engine function is called directly: main and its loaders are not involved.
DirectCall == entry = "call" /\ files = <<>> /\ url_valid = TRUE

InitCreatePdf ==
    /\ prog = "create_pdf"
    /\ \E n \in 0..MaxImages : \E bad \in 0..n :
          images_with_names = MkImages(n, [k \in 1..n |-> 1], bad)
    /\ image_width \in WidthSet
    /\ image_height \in HeightSet
    /\ margin \in MarginSet
    /\ back_card_limit \in 0..MaxLimit
    /\ draw_cut_lines \in BOOLEAN
    /\ back_face_mode \in BOOLEAN
    /\ DirectCall

\* process_images_and_generate_pdf takes the list and draw_cut_lines; the cell
\* sizes are set per bucket, and it has no back faces.  Either every image
\* decodes or the last one of the list does not.
InitWarbands ==
    /\ prog = "warbands"
    /\ \E n \in 0..MaxNames : \E name \in [1..n -> 1..Len(Names)] : \E bad \in {0, n} :
          images_with_names = MkImages(n, name, bad)
    /\ image_width = 0 /\ image_height = 0 /\ margin = 0
    /\ back_card_limit = 0
    /\ draw_cut_lines \in BOOLEAN
    /\ back_face_mode = FALSE
    /\ DirectCall

\* main is run with --format pdf or png on a folder or a page of at most MaxFiles
\* images, each readable, rejected by the loader, or opened by the loader but
\* not decodable; --width/--height may be 0; --margin as for create_pdf.
MkFiles(status) ==
    [i \in 1..Len(status) |-> [id |-> i, name |-> 1, status |-> status[i]]]

MainWidthSet == {0, 63 * mm}
MainHeightSet == {0, 88 * mm}

InitMain ==
    /\ prog \in {"create_pdf", "png"}
    /\ entry \in {"folder", "url"}
    /\ url_valid \in (IF entry = "url" THEN BOOLEAN ELSE {TRUE})
    /\ \E n \in 0..MaxFiles :
          \E status \in [1..n -> {"ok", "unreadable", "corrupt"}] :
             files = MkFiles(status)
    /\ images_with_names = <<>>
    /\ image_width \in MainWidthSet
    /\ image_height \in MainHeightSet
    /\ margin \in MarginSet
    /\ back_card_limit = DefaultBackCardLimit
    /\ draw_cut_lines \in BOOLEAN
    /\ back_face_mode = FALSE

\* save_as_png takes the list alone; at most one asset cannot be saved.
InitPng ==
    /\ prog = "png"
    /\ \E n \in 0..MaxPng : \E name \in [1..n -> 1..Len(FileNames)] : \E bad \in 0..n :
          images_with_names = MkImages(n, name, bad)
    /\ image_width = 0 /\ image_height = 0 /\ margin = 0
    /\ back_card_limit = 0
    /\ draw_cut_lines = FALSE
    /\ back_face_mode = FALSE
    /\ DirectCall

Init ==
    /\ (InitCreatePdf \/ InitWarbands \/ InitMain \/ InitPng)
    /\ pc = IF entry = "call" THEN "start" ELSE "main"
    /\ exit_code = -1
    /\ written = <<>> /\ png_i = 0
    /\ configs = <<>> /\ cfg_i = 0 /\ child = "none" /\ log = <<>>
    /\ images_per_row = 0 /\ images_per_col = 0 /\ images_per_page = 0
    /\ total_pages = 0 /\ page_num = 0 /\ back_counter = 0
    /\ dedicated_images = <<>> /\ inspired_images = <<>> /\ other_images = <<>>
    /\ bucket = 0 /\ direction = "ltr" /\ page_start = 0
    /\ page = BlankPage /\ pages = <<>> /\ saved = FALSE
    /\ ret = "-" /\ msg = "-"

Next ==
    \/ CreatePdfBegin
    \/ FrontPage
    \/ BackPage
    \/ SavePdf
    \/ WarbandsBegin
    \/ SkipBucket
    \/ BeginBucket
    \/ DrawChunk
    \/ EndBucket
    \/ SaveWarbands
    \/ MainFolder
    \/ MainUrl
    \/ MainExit
    \/ SavePng
    \/ SaveAsPngReturn

Spec == Init /\ [][Next]_vars

\* ------------------------------------------------------ batch_generate_pdfs
\* The configs list built from base_urls (lines 78-96): for every deck, in
\* order, a png config that downloads into the deck's directory and then a
\* pdf config that reads that directory with --folder.
RECURSIVE build_configs(_, _)
build_configs(d, n) ==
    IF d > n THEN <<>>
    ELSE << [deck |-> d, format |-> "png", folder |-> 0],
            [deck |-> d, format |-> "pdf", folder |-> d] >>
         \o build_configs(d + 1, n)

\* The loop of run_uw_images_to_pdf reaches subprocess.run for the next
\* config (lines 13-59): the child is started and the parent waits for it.
BatchRun ==
    /\ prog = "batch"
    /\ pc = "batch"
    /\ child = "none"
    /\ cfg_i < Len(configs)
    /\ cfg_i' = cfg_i + 1
    /\ child' = "running"
    /\ log' = Append(log, [event |-> "start", i |-> cfg_i + 1,
                           deck |-> configs[cfg_i + 1].deck,
                           format |-> configs[cfg_i + 1].format, code |-> 0])
    /\ UNCHANGED <<cli_vars, png_vars, layout_vars, configs, prog,
                   images_with_names, pc, ret, msg>>

\* Faulty variant of ChildExit: a non-zero exit status ends the loop.
ChildExit_failure_stops_batch ==
    /\ prog = "batch"
    /\ child = "running"
    /\ \E code \in {0, 1} :
          /\ log' = Append(log, [event |-> "exit", i |-> cfg_i,
                                 deck |-> configs[cfg_i].deck,
                                 format |-> configs[cfg_i].format, code |-> code])
          /\ cfg_i' = IF code = 0 THEN cfg_i ELSE Len(configs)
    /\ child' = "none"
    /\ UNCHANGED <<cli_vars, png_vars, layout_vars, configs, prog,
                   images_with_names, pc, ret, msg>>

\* The child terminates and subprocess.run returns (exit status 0) or raises
\* CalledProcessError (non-zero), which the except clause prints (lines
\* 59-63); either way the loop goes on.
ChildExit ==
    /\ prog = "batch"
    /\ child = "running"
    /\ \E code \in {0, 1} :
          log' = Append(log, [event |-> "exit", i |-> cfg_i,
                              deck |-> configs[cfg_i].deck,
                              format |-> configs[cfg_i].format, code |-> code])
    /\ child' = "none"
    /\ UNCHANGED <<cli_vars, png_vars, layout_vars, configs, cfg_i, prog,
                   images_with_names, pc, ret, msg>>

\* The loop is over and run_uw_images_to_pdf returns.
BatchReturn ==
    /\ prog = "batch"
    /\ pc = "batch"
    /\ child = "none"
    /\ cfg_i = Len(configs)
    /\ pc' = "done"
    /\ UNCHANGED <<cli_vars, png_vars, batch_vars, layout_vars, prog,
                   images_with_names, ret, msg>>

\* The batch driver is run with at most MaxDecks decks in base_urls.
InitBatch ==
    /\ prog = "batch"
    /\ pc = "batch"
    /\ \E n \in 0..MaxDecks : configs = build_configs(1, n)
    /\ cfg_i = 0 /\ child = "none" /\ log = <<>>
    /\ DirectCall
    /\ exit_code = -1
    /\ written = <<>> /\ png_i = 0
    /\ images_with_names = <<>>
    /\ image_width = 0 /\ image_height = 0 /\ margin = 0
    /\ back_card_limit = 0
    /\ draw_cut_lines = FALSE /\ back_face_mode = FALSE
    /\ images_per_row = 0 /\ images_per_col = 0 /\ images_per_page = 0
    /\ total_pages = 0 /\ page_num = 0 /\ back_counter = 0
    /\ dedicated_images = <<>> /\ inspired_images = <<>> /\ other_images = <<>>
    /\ bucket = 0 /\ direction = "ltr" /\ page_start = 0
    /\ page = BlankPage /\ pages = <<>> /\ saved = FALSE
    /\ ret = "-" /\ msg = "-"

NextBatch ==
    \/ BatchRun
    \/ ChildExit
    \/ BatchReturn

\* The parent is a sequential program and each child terminates (its loops
\* are finite and its requests carry a timeout), so a step that is enabled is
\* eventually taken.
SpecBatch == InitBatch /\ [][NextBatch]_vars /\ WF_vars(NextBatch)

\* =================================================================== claims
\* Helpers of the properties below.
Geom(r) == <<r.x, r.y, r.w, r.h>>

\* Two rectangles share interior points.
Overlap(r1, r2) ==
    /\ r1.x < r2.x + r2.w /\ r2.x < r1.x + r1.w
    /\ r1.y < r2.y + r2.h /\ r2.y < r1.y + r1.h

SeqMin(f) == CHOOSE v \in {f[i] : i \in DOMAIN f} : \A i \in DOMAIN f : v <= f[i]
SeqMax(f) == CHOOSE v \in {f[i] : i \in DOMAIN f} : \A i \in DOMAIN f : v >= f[i]

\* The block of rectangles leaves equal gaps left and right, and top and bottom.
CenteredBlock(rects) ==
    /\ SeqMin([i \in DOMAIN rects |-> rects[i].x])
         = A4[1] - SeqMax([i \in DOMAIN rects |-> rects[i].x + rects[i].w])
    /\ SeqMin([i \in DOMAIN rects |-> rects[i].y])
         = A4[2] - SeqMax([i \in DOMAIN rects |-> rects[i].y + rects[i].h])

NoOverlap(rects) ==
    \A i, j \in DOMAIN rects : i < j => ~Overlap(rects[i], rects[j])

AllPages == {pages[i] : i \in DOMAIN pages} \cup {page}

IsFrontPage(p) == p.rects # <<>> /\ \A i \in DOMAIN p.rects : p.rects[i].img.kind = "card"
IsBackPage(p) == p.rects # <<>> /\ \A i \in DOMAIN p.rects : p.rects[i].img.kind # "card"

FrontPages == SelectSeq(pages, IsFrontPage)
BackPages == SelectSeq(pages, IsBackPage)

RECURSIVE FlatRects(_)
FlatRects(pgs) == IF pgs = <<>> THEN <<>> ELSE Head(pgs).rects \o FlatRects(Tail(pgs))

\* n chunks is what ceil(len / per) asks for, stated without division.
IsChunkCount(n, len, per) == n * per >= len /\ (n - 1) * per < len

\* list is laid out on pgs in consecutive chunks of per images, in list order.
Paginated(list, pgs, per) ==
    /\ IsChunkCount(Len(pgs), Len(list), per)
    /\ \A q \in 1..(Len(pgs) - 1) : Len(pgs[q].rects) = per
    /\ Len(FlatRects(pgs)) = Len(list)
    /\ \A k \in 0..(Len(list) - 1) :
          LET q == (k \div per) + 1
              s == k % per
          IN /\ q <= Len(pgs)
             /\ s + 1 <= Len(pgs[q].rects)
             /\ pgs[q].rects[s + 1].img = card(list[k + 1])
             /\ pgs[q].rects[s + 1].slot = s

\* The layout engine was entered and has computed its grid: main did not
\* stop before calling it.
GridPlanned ==
    /\ prog \in {"create_pdf", "warbands"}
    /\ pc \notin {"main", "start"}
    /\ ~(pc \in {"done", "exited"} /\ msg \in {"-", "No images were downloaded"})

CreatePdfDone == prog = "create_pdf" /\ pc = "done" /\ ret = "True"
WarbandsDone == prog = "warbands" /\ pc = "done" /\ saved

\* C1: whenever cell_width+margin > 0 and cell_height+margin > 0, the grid plan
\* computed by create_pdf and by draw_images_on_page_specific is
\* columns = max(1, floor((page_width - 2*margin)/(cell_width + margin))),
\* rows likewise with the heights, and images_per_page = columns*rows, so all
\* three are at least 1.  (c = max(1, floor(a/b)) is stated without division:
\* c >= 1, (c+1)*b > a, and c*b <= a unless c = 1.)
C1_GridPlanClamped ==
    (GridPlanned /\ image_width + margin > 0 /\ image_height + margin > 0) =>
        /\ images_per_row >= 1
        /\ (images_per_row + 1) * (image_width + margin) > A4[1] - 2 * margin
        /\ \/ images_per_row = 1
           \/ images_per_row * (image_width + margin) <= A4[1] - 2 * margin
        /\ images_per_col >= 1
        /\ (images_per_col + 1) * (image_height + margin) > A4[2] - 2 * margin
        /\ \/ images_per_col = 1
           \/ images_per_col * (image_height + margin) <= A4[2] - 2 * margin
        /\ images_per_page = images_per_row * images_per_col
        /\ images_per_page >= 1

\* create_pdf has planned a grid for a cell wider than the page: the clamp gave
\* one column, with three rows.
C1_Witness ==
    /\ prog = "create_pdf" /\ pc = "front"
    /\ image_width > A4[1]
    /\ images_per_row = 1 /\ images_per_col = 3

\* C2: the rectangles drawn on one page never overlap, and the rectangles of a
\* full page (columns*rows slots) form a block centred on the page: left gap =
\* right gap and top gap = bottom gap.
C2_NoOverlapCentered ==
    /\ \A p \in AllPages : NoOverlap(p.rects)
    /\ prog = "create_pdf" =>
          \A p \in AllPages :
             Len(p.rects) = images_per_page /\ p.rects # <<>> => CenteredBlock(p.rects)
    /\ (prog = "warbands" /\ pc = "chunk"
          /\ page.rects # <<>> /\ Len(page.rects) = images_per_page)
       => CenteredBlock(page.rects)

\* A full 3 x 3 front page with a margin has been closed by create_pdf.
C2_Witness ==
    /\ prog = "create_pdf"
    /\ images_per_row = 3 /\ images_per_col = 3 /\ margin > 0
    /\ \E i \in DOMAIN pages : Len(pages[i].rects) = 9

\* C3: in create_pdf a front page (drawn "ltr") and its back page (drawn "rtl")
\* are mirror images slot by slot: same y, and x_ltr + x_rtl + cell_width =
\* page_width; on a full page the two directions occupy the same set of
\* rectangles.
C3_DirectionMirror ==
    prog = "create_pdf" =>
        \A k \in DOMAIN pages :
            (k % 2 = 0) =>
                LET f == pages[k - 1].rects
                    b == pages[k].rects
                IN /\ Len(f) = Len(b)
                   /\ \A i \in DOMAIN f :
                         /\ f[i].dir = "ltr" /\ b[i].dir = "rtl"
                         /\ f[i].slot = b[i].slot
                         /\ f[i].y = b[i].y
                         /\ f[i].x + b[i].x + image_width = A4[1]
                   /\ Len(f) = images_per_page =>
                         {Geom(f[i]) : i \in DOMAIN f} = {Geom(b[i]) : i \in DOMAIN b}

\* A full front page of at least two columns and its back page both exist, and
\* slot 0 sits at different x on the two.
C3_Witness ==
    /\ prog = "create_pdf" /\ images_per_row >= 2
    /\ Len(pages) >= 2
    /\ Len(pages[1].rects) = images_per_page
    /\ pages[1].rects[1].x # pages[2].rects[1].x

\* C4: over a whole create_pdf run the k-th back slot (in slot order, across
\* pages) uses the primary back image iff k <= back_card_limit; so a finished
\* run of N front slots has N back slots, min(N, L) of them primary and the
\* rest alternate.
C4_BackCounter ==
    prog = "create_pdf" =>
        LET b == FlatRects(BackPages)
        IN /\ \A k \in DOMAIN b :
                 /\ (k <= back_card_limit) => b[k].img = back_card
                 /\ (k > back_card_limit) => b[k].img = alternate_back_card
           /\ CreatePdfDone =>
                 /\ Len(b) = Len(images_with_names)
                 /\ Cardinality({k \in DOMAIN b : b[k].img = back_card})
                      = Min(Len(images_with_names), back_card_limit)

\* A finished run of several pages where the limit was reached inside the
\* second back page.
C4_Witness ==
    /\ CreatePdfDone
    /\ images_per_page >= 2
    /\ back_card_limit > images_per_page
    /\ Len(images_with_names) > back_card_limit

\* The pages holding images of a list, and the per-page count of bucket b.
PagesOf(list) ==
    SelectSeq(pages, LAMBDA p :
        \E i \in DOMAIN p.rects : \E j \in DOMAIN list : p.rects[i].img = card(list[j]))

PerPageOf(b) ==
    fit_count_specific(A4[1], bucket_call(b).image_width, bucket_call(b).margin)
      * fit_count_specific(A4[2], bucket_call(b).image_height, bucket_call(b).margin)

\* C5: a finished run has laid the input out in consecutive chunks of
\* images_per_page: ceil(N / images_per_page) front pages, all but the last
\* full, image k on front page k div images_per_page at slot
\* k mod images_per_page, every image exactly once.  In
\* process_images_and_generate_pdf the same holds of each bucket's list and pages.
C5_Pagination ==
    /\ CreatePdfDone => Paginated(images_with_names, FrontPages, images_per_page)
    /\ WarbandsDone =>
          \A b \in 1..3 :
             Paginated(bucket_call(b).list, PagesOf(bucket_call(b).list), PerPageOf(b))

\* A finished create_pdf run with a full first front page and a short last one.
C5_Witness ==
    /\ CreatePdfDone
    /\ images_per_page >= 2
    /\ Len(FrontPages) >= 2
    /\ Len(FrontPages[Len(FrontPages)].rects) < images_per_page

\* C6: with back-face mode on, the pages of create_pdf alternate front, back,
\* front, back: every front page (cards, drawn "ltr") is immediately followed by
\* one back page (back images, drawn "rtl") with the same number of slots, and a
\* finished run has 2 * ceil(N / images_per_page) pages.
C6_FrontBackAlternate ==
    (prog = "create_pdf" /\ back_face_mode) =>
        /\ \A k \in DOMAIN pages :
              IF k % 2 = 1
              THEN /\ IsFrontPage(pages[k])
                   /\ \A i \in DOMAIN pages[k].rects : pages[k].rects[i].dir = "ltr"
              ELSE /\ IsBackPage(pages[k])
                   /\ \A i \in DOMAIN pages[k].rects : pages[k].rects[i].dir = "rtl"
                   /\ Len(pages[k].rects) = Len(pages[k - 1].rects)
        /\ (Len(pages) % 2 = 1) <=> (pc = "back")
        /\ CreatePdfDone =>
              IsChunkCount(Len(pages) \div 2, Len(images_with_names), images_per_page)

\* A finished run with back-face mode on, two chunks, four pages.
C6_Witness ==
    /\ CreatePdfDone /\ back_face_mode
    /\ Len(pages) = 4
    /\ Len(pages[3].rects) < Len(pages[1].rects)

Occurrences(list, item) == Cardinality({j \in DOMAIN list : list[j] = item})

HasDedicatedKeyword(item) ==
    \E kw \in dedicated_keywords : contains(lower(Names[item.name]), kw)
HasInspiredKeyword(item) == contains(lower(Names[item.name]), inspired_keyword)

ListOf(item) ==
    CHOOSE b \in 1..3 : Occurrences(bucket_call(b).list, item) > 0

\* C8: after the categorising loop every input item is in exactly one of the
\* three lists, exactly once; items whose names are equal up to case are in the
\* same list; a name with a dedicated keyword and the inspired keyword is in the
\* dedicated list; and each list keeps the input order.
C8_Categorized ==
    (prog = "warbands" /\ pc # "start") =>
        /\ \A i \in DOMAIN images_with_names :
              LET item == images_with_names[i]
              IN /\ Occurrences(dedicated_images, item)
                      + Occurrences(inspired_images, item)
                      + Occurrences(other_images, item) = 1
                 /\ (HasDedicatedKeyword(item) /\ HasInspiredKeyword(item))
                       => Occurrences(dedicated_images, item) = 1
        /\ Len(dedicated_images) + Len(inspired_images) + Len(other_images)
             = Len(images_with_names)
        /\ \A i, j \in DOMAIN images_with_names :
              lower(Names[images_with_names[i].name])
                 = lower(Names[images_with_names[j].name])
              => ListOf(images_with_names[i]) = ListOf(images_with_names[j])
        /\ \A b \in 1..3 :
              LET list == bucket_call(b).list
              IN \A i, j \in DOMAIN list : i < j => list[i].id < list[j].id

\* The loop has run on a list holding a name with both kinds of keyword, which
\* went to the dedicated list, and two names equal up to case, which went to
\* the inspired list in input order.
C8_Witness ==
    /\ prog = "warbands" /\ pc = "bucket" /\ bucket = 1
    /\ \E i \in DOMAIN dedicated_images :
          HasDedicatedKeyword(dedicated_images[i]) /\ HasInspiredKeyword(dedicated_images[i])
    /\ Len(inspired_images) >= 2
    /\ Names[inspired_images[1].name] # Names[inspired_images[2].name]
    /\ other_images # <<>>

\* Rectangle r shows an image of bucket b.
InBucket(b, r) ==
    \E j \in DOMAIN bucket_call(b).list : r.img = card(bucket_call(b).list[j])

\* C9: in process_images_and_generate_pdf every page holds images of one bucket
\* only, drawn with that bucket's cell size and direction; a finished run has
\* exactly ceil(k / images_per_page of the bucket) pages for a bucket of k items,
\* none for an empty bucket, and no other page.
C9_BucketsOwnPages ==
    prog = "warbands" =>
        /\ \A p \in AllPages :
              \E b \in 1..3 :
                 \A i \in DOMAIN p.rects :
                    /\ InBucket(b, p.rects[i])
                    /\ p.rects[i].w = bucket_call(b).image_width
                    /\ p.rects[i].h = bucket_call(b).image_height
                    /\ p.rects[i].dir = bucket_call(b).direction
        /\ WarbandsDone =>
              /\ \A b \in 1..3 :
                    LET list == bucket_call(b).list
                    IN /\ IsChunkCount(Len(PagesOf(list)), Len(list), PerPageOf(b))
                       /\ list = <<>> => PagesOf(list) = <<>>
              /\ Len(pages) = Len(PagesOf(other_images))
                                + Len(PagesOf(inspired_images))
                                + Len(PagesOf(dedicated_images))

\* A finished run with a dedicated bucket of two pages, a non-empty other
\* bucket and an empty inspired bucket.
C9_Witness ==
    /\ WarbandsDone
    /\ Len(PagesOf(dedicated_images)) = 2
    /\ other_images # <<>>
    /\ inspired_images = <<>>
    /\ Len(pages) = 3

\* C10: a run given 0 images emits no page, writes no document and does not
\* report success.
C10_EmptyRunNotSuccess ==
    (pc = "done" /\ images_with_names = <<>>) =>
        /\ pages = <<>>
        /\ ~saved
        /\ ret # "True"
        /\ msg \notin {"Successfully created PDF", "PDF successfully created"}

\* C12: when cut lines are requested, every emitted page that holds images
\* carries the cut lines of its own grid, drawn on that page before the page
\* break: exactly one draw_pdf_cut_lines call, with the cell size of the
\* page's images.
C12_CutLinesOnSamePage ==
    draw_cut_lines =>
        \A k \in DOMAIN pages :
            pages[k].rects # <<>> =>
                /\ Len(pages[k].cuts) = 1
                /\ pages[k].cuts[1].w = pages[k].rects[1].w
                /\ pages[k].cuts[1].h = pages[k].rects[1].h

\* The vertical and horizontal ticks of a set of lines, and the cells of the
\* grid a draw_pdf_cut_lines call is given.
VerticalTicks(lines) == {l \in lines : l.x1 = l.x2}
HorizontalTicks(lines) == {l \in lines : l.y1 = l.y2}
GridCells(cut) ==
    {place(i, back_card, "ltr", cut.per_row, cut.per_col, A4[1], A4[2],
           cut.w, cut.h, cut.m) : i \in 0..(cut.per_row * cut.per_col - 1)}

\* C13: every draw_pdf_cut_lines call draws its ticks at the cell edges and
\* nowhere else: vertical ticks at the left and right edge of every column,
\* horizontal ticks at the bottom and top edge of every row, none at a
\* coordinate outside the grid block.
C13_TicksAtCellEdges ==
    \A p \in AllPages :
        \A k \in DOMAIN p.cuts :
            LET lines == draw_pdf_cut_lines(p.cuts[k], A4[1], A4[2])
                cells == GridCells(p.cuts[k])
            IN /\ {l.x1 : l \in VerticalTicks(lines)}
                    = {r.x : r \in cells} \cup {r.x + r.w : r \in cells}
               /\ {l.y1 : l \in HorizontalTicks(lines)}
                    = {r.y : r \in cells} \cup {r.y + r.h : r \in cells}

\* The rectangle lies inside the page, at least m away from each page edge.
InsideWithMargin(r, m) ==
    /\ r.x >= m /\ r.x + r.w <= A4[1] - m
    /\ r.y >= m /\ r.y + r.h <= A4[2] - m

\* The grid formula of create_pdf yields at least one column and one row
\* before the clamp to 1 is applied.
Unclamped ==
    /\ image_width + margin > 0 /\ image_height + margin > 0
    /\ floor_div(A4[1] - 2 * margin, image_width + margin) >= 1
    /\ floor_div(A4[2] - 2 * margin, image_height + margin) >= 1

\* C16: in create_pdf, when the unclamped grid formula yields at least one
\* column and one row (margin >= 0), the cell rectangle of every slot of the
\* grid, in either direction, and every rectangle drawn on a page, lies inside
\* the page and at least margin from each page edge; a cell reaches past the
\* page only when the clamp was applied.
C16_CellsInsidePage ==
    (prog = "create_pdf" /\ pc \in {"front", "back", "save", "done"} /\ Unclamped) =>
        /\ \A i \in 0..(images_per_page - 1) : \A dir \in {"ltr", "rtl"} :
              InsideWithMargin(
                  place(i, back_card, dir, images_per_row, images_per_col,
                        A4[1], A4[2], image_width, image_height, margin),
                  margin)
        /\ \A p \in AllPages : \A k \in DOMAIN p.rects :
              InsideWithMargin(p.rects[k], margin)

\* A finished run with a positive margin whose first front page filled a 3 x 3
\* grid and was followed by its back page, drawn right to left.
C16_Witness ==
    /\ CreatePdfDone /\ Unclamped
    /\ margin > 0
    /\ images_per_row = 3 /\ images_per_col = 3
    /\ Len(pages) >= 2
    /\ Len(pages[1].rects) = 9
    /\ pages[2].rects[1].dir = "rtl"

\* C11: on every path of main into the PDF layout (URL and --folder), a
\* non-positive cell width or height is rejected before layout begins: no
\* page is drawn, no document is written and the run exits with failure.
C11_InvalidGeometryRejected ==
    (entry # "call" /\ prog = "create_pdf"
       /\ (image_width <= 0 \/ image_height <= 0)) =>
        /\ pages = <<>> /\ page = BlankPage
        /\ ~saved
        /\ pc = "exited" => exit_code = 1

\* The assets given to the run, in input order, as records [id, good]: good
\* when the asset both loads and decodes.
Assets ==
    IF entry = "call"
    THEN [i \in 1..Len(images_with_names) |->
            [id |-> images_with_names[i].id, good |-> images_with_names[i].ok]]
    ELSE [i \in 1..Len(files) |->
            [id |-> files[i].id, good |-> files[i].status = "ok"]]

\* The ids of the good assets, and of the cards placed on front pages, in order.
GoodIds ==
    LET good == SelectSeq(Assets, LAMBDA a : a.good)
    IN [i \in 1..Len(good) |-> good[i].id]
PlacedIds ==
    LET placed == FlatRects(FrontPages)
    IN [i \in 1..Len(placed) |-> placed[i].img.id]

\* C14: an asset that fails to load or to decode, at load time or at draw
\* time, is skipped and does not abort the run: a run that reached the layout
\* with valid geometry and at least one good asset completes, writes the
\* document and has placed exactly the good assets, in their input order
\* (in process_images_and_generate_pdf: each of them, bucket by bucket).
C14_BadAssetSkipped ==
    (/\ prog \in {"create_pdf", "warbands"}
     /\ pc \in {"done", "exited"}
     /\ url_valid
     /\ prog = "create_pdf" => (image_width > 0 /\ image_height > 0)
     /\ GoodIds # <<>>) =>
        /\ saved
        /\ prog = "create_pdf" => PlacedIds = GoodIds
        /\ prog = "warbands" =>
              UNION {{p.rects[k].img.id : k \in DOMAIN p.rects} : p \in AllPages}
                = {GoodIds[i] : i \in DOMAIN GoodIds}

\* The original name of the i-th asset of a save_as_png run.
OriginalName(i) == FileNames[images_with_names[i].name]

\* C15: save_as_png writes exactly one file per input asset, in input order:
\* the i-th file belongs to the i-th asset and is named by the 1-based position
\* i in at least three digits, an underscore, the asset's original name without
\* its extension, and an extension (the whole original name when its extension
\* is an allowed one); no two files of a run share a filename, even when the
\* original names are equal; a run that returns True has written a file for
\* every asset.
C15_OneFilePerAsset ==
    prog = "png" =>
        /\ Len(written) = png_i /\ png_i <= Len(images_with_names)
        /\ \A i \in DOMAIN written :
              LET f == written[i].filename
                  stem == splitext(OriginalName(i)).name_part
                  ext == splitext(OriginalName(i)).ext
              IN /\ written[i].id = images_with_names[i].id
                 /\ Len(f) > 4 + Len(stem)
                 /\ SubSeq(f, 1, 4) = format_03d(i) \o <<"_">>
                 /\ SubSeq(f, 5, 4 + Len(stem)) = stem
                 /\ f[5 + Len(stem)] = "."
                 /\ lower(ext) \in allowed_extensions =>
                       f = format_03d(i) \o <<"_">> \o OriginalName(i)
        /\ \A i, j \in DOMAIN written :
              written[i].filename = written[j].filename => i = j
        /\ (pc \in {"done", "exited"} /\ ret = "True") =>
              Len(written) = Len(images_with_names)

\* A finished run of three assets, two of them with the same original name,
\* one with an extension that is not kept.
C15_Witness ==
    /\ prog = "png" /\ pc = "done" /\ ret = "True"
    /\ Len(written) = 3
    /\ OriginalName(1) = OriginalName(3)
    /\ png_ext(OriginalName(2)) # splitext(OriginalName(2)).ext

\* The subprocess events so far are start 1, exit 1, start 2, exit 2, ... of
\* the configs in list order.
LogInOrder ==
    \A k \in DOMAIN log :
        LET i == (k + 1) \div 2
        IN /\ log[k].event = (IF k % 2 = 1 THEN "start" ELSE "exit")
           /\ log[k].i = i
           /\ i \in DOMAIN configs
           /\ log[k].deck = configs[i].deck
           /\ log[k].format = configs[i].format

\* The png step of a deck has terminated before the pdf step of that deck starts.
PngBeforePdf ==
    \A k \in DOMAIN log :
        (log[k].event = "start" /\ log[k].format = "pdf") =>
            \E j \in 1..(k - 1) :
                /\ log[j].event = "exit"
                /\ log[j].format = "png"
                /\ log[j].deck = log[k].deck

\* C17: run_uw_images_to_pdf runs the configs strictly one at a time in list
\* order (config i + 1 starts only after the subprocess of config i has
\* terminated), a config that exits non-zero does not stop the batch, the png
\* step of a deck finishes before its pdf step starts, and every config is
\* eventually run exactly once.
C17_BatchSequential ==
    /\ [](prog = "batch" =>
            /\ LogInOrder
            /\ PngBeforePdf
            /\ child = "running" <=> Len(log) % 2 = 1
            /\ pc = "done" => Len(log) = 2 * Len(configs))
    /\ (prog = "batch") ~> (pc = "done" /\ Len(log) = 2 * Len(configs))

\* A finished batch of two decks or more in which a config exited non-zero
\* and the configs after it were run all the same.
C17_Witness ==
    /\ prog = "batch" /\ pc = "done"
    /\ Len(configs) >= 4
    /\ log[2].code = 1
    /\ Len(log) = 2 * Len(configs)
====
